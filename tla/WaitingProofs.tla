---------------------------- MODULE WaitingProofs ---------------------------
(***************************************************************************)
(* Proofs about what executors wait for: Collector for any number of       *)
(* executors, any budget and any number of collections; Future for any     *)
(* finite number of waiters; Process for any finite number of executors    *)
(* that hold it and any exit codes.                                        *)
(***************************************************************************)
EXTENDS Collector, Future, Process, FiniteSetTheorems, TLAPS
-----------------------------------------------------------------------------
(* The garbage collector and its requests. *)

\* The state of the collector and of its callers stays within its types.
LEMMA CollectorTypeStep == TypeOK /\ [Next]_vars => TypeOK'
<1> SUFFICES ASSUME TypeOK, [Next]_vars PROVE TypeOK'
  OBVIOUS
<1> USE CollectorAssumption DEF TypeOK, collectorVars, threadVars, Goto, ThreadPcs
<1>1. CASE VmStep
  <2>1. CASE StartCollector
    BY <2>1 DEF StartCollector
  <2>2. CASE StartFails \/ Terminate
    BY <2>2 DEF StartFails, Terminate
  <2>3. CASE Terminated \/ Return
    BY <2>3 DEF Terminated, Return
  <2> QED BY <1>1, <2>1, <2>2, <2>3 DEF VmStep
<1>2. CASE CollectorStep
  <2>0. \A t \in Threads : CoveredBy(t, reqFlags) \in {"no", "begun", "ended"}
    BY DEF CoveredBy
  <2>1. CASE Wake
    <3>1. covered' \in [Threads -> {"no", "begun", "ended"}]
      BY <2>0, <2>1 DEF Wake
    <3>2. bytes' \in Int /\ begun' \in Nat
      BY <2>1 DEF Wake
    <3>3. flags' \in BOOLEAN /\ reqFlags' \in BOOLEAN
      BY <2>1, Zenon DEF Wake
    <3> QED BY <2>1, <3>1, <3>2, <3>3 DEF Wake
  <2>2. CASE Collect
    BY <2>2 DEF Collect
  <2>3. CASE WakeTerminate \/ CollectorExit
    BY <2>3 DEF WakeTerminate, CollectorExit
  <2> QED BY <1>2, <2>1, <2>2, <2>3 DEF CollectorStep
<1>3. ASSUME NEW t \in Threads, ThreadStep(t) PROVE TypeOK'
  <2>1. CASE NotifyAlloc(t)
    BY <2>1 DEF NotifyAlloc
  <2>2. CASE Subtract(t)
    BY <2>2 DEF Subtract
  <2>3. CASE ResetBytes(t)
    BY <2>3 DEF ResetBytes
  <2>4. CASE CollectNow(t)
    BY <2>4 DEF CollectNow
  <2>5. CASE Request(t)
    BY <2>5 DEF Request
  <2>6. CASE Spin(t)
    BY <2>6 DEF Spin
  <2>7. CASE CollectNowReturn(t)
    BY <2>7 DEF CollectNowReturn
  <2>8. CASE End(t)
    BY <2>8 DEF End
  <2>9. CASE Abort(t)
    BY <2>9 DEF Abort
  <2> QED BY <1>3, <2>1, <2>2, <2>3, <2>4, <2>5, <2>6, <2>7, <2>8, <2>9 DEF ThreadStep
<1>4. CASE UNCHANGED vars
  BY <1>4 DEF vars
<1> QED BY <1>1, <1>2, <1>3, <1>4 DEF Next, Finished

\* The collector and run() keep every caller's promise.
LEMMA CollectorInvStep == CollectorInv /\ [Next]_vars => CollectorInv'
<1> SUFFICES ASSUME CollectorInv, [Next]_vars PROVE CollectorInv'
  OBVIOUS
<1>0. TypeOK'
  BY CollectorTypeStep DEF CollectorInv
<1> USE <1>0 DEF CollectorInv, CallerInv, TypeOK, collectorVars, threadVars, Goto
<1>1. CASE VmStep
  <2>1. CASE StartCollector
    BY <2>1 DEF StartCollector
  <2>2. CASE StartFails \/ Terminate
    BY <2>2 DEF StartFails, Terminate
  <2>3. CASE Terminated \/ Return
    BY <2>3 DEF Terminated, Return
  <2> QED BY <1>1, <2>1, <2>2, <2>3 DEF VmStep
<1>2. CASE CollectorStep
  <2>1. CASE Wake
    BY <2>1 DEF Wake, CoveredBy
  <2>2. CASE Collect
    BY <2>2 DEF Collect
  <2>3. CASE WakeTerminate \/ CollectorExit
    BY <2>3 DEF WakeTerminate, CollectorExit
  <2> QED BY <1>2, <2>1, <2>2, <2>3 DEF CollectorStep
<1>3. ASSUME NEW t \in Threads, ThreadStep(t) PROVE CollectorInv'
  <2>1. CASE NotifyAlloc(t)
    BY <2>1 DEF NotifyAlloc
  <2>2. CASE Subtract(t)
    BY <2>2 DEF Subtract
  <2>3. CASE ResetBytes(t)
    BY <2>3 DEF ResetBytes
  <2>4. CASE CollectNow(t)
    BY <2>4 DEF CollectNow
  <2>5. CASE Request(t)
    BY <2>5 DEF Request
  <2>6. CASE Spin(t)
    BY <2>6 DEF Spin
  <2>7. CASE CollectNowReturn(t) \/ End(t) \/ Abort(t)
    BY <2>7 DEF CollectNowReturn, End, Abort
  <2> QED BY <1>3, <2>1, <2>2, <2>3, <2>4, <2>5, <2>6, <2>7 DEF ThreadStep
<1>4. CASE UNCHANGED vars
  BY <1>4 DEF vars
<1> QED BY <1>1, <1>2, <1>3, <1>4 DEF Next, Finished

\* What CollectorInv says of ids, flags and counters holds always.
THEOREM CollectorInductive == Spec => []CollectorInv
<1>1. Init => CollectorInv
  <2> SUFFICES ASSUME Init PROVE CollectorInv
    OBVIOUS
  <2>1. TypeOK
    <3>1. want \in [Threads -> BOOLEAN] /\ wait \in [Threads -> BOOLEAN]
      BY DEF Init
    <3>2. bytes \in Int
      BY CollectorAssumption DEF Init
    <3>3. reqFlags \in BOOLEAN /\ flags \in BOOLEAN
      BY Zenon DEF Init
    <3> QED BY <3>1, <3>2, <3>3 DEF Init, TypeOK, ThreadPcs
  <2> QED BY <2>1 DEF Init, CollectorInv, CallerInv
<1> QED BY <1>1, CollectorInvStep, PTL DEF Spec

\* collectNow() returns only after a collection that began after the call ran
\* with the requested flags, however requests are merged.
THEOREM CollectNowSoundHolds == Spec => []CollectNowSound
<1>1. CollectorInv => CollectNowSound
  BY DEF CollectorInv, CallerInv, CollectNowSound
<1> QED BY <1>1, CollectorInductive, PTL

\* A request to terminate the collector is never lost.
THEOREM TerminateStaysHolds == Spec => TerminateStays
<1>1. [Next]_vars => [reqType = "Terminate" => reqType' = "Terminate"]_vars
  BY DEF Next, VmStep, CollectorStep, ThreadStep, Finished, StartCollector, StartFails,
         Terminate, Terminated, Return, Wake, WakeTerminate, Collect, CollectorExit,
         NotifyAlloc, Subtract, ResetBytes, CollectNow, Request, Spin,
         CollectNowReturn, End, Abort, collectorVars, threadVars, vars
<1> QED BY <1>1, PTL DEF Spec, TerminateStays

\* The overdraft of n + 1 threads exceeds that of n by one subtraction.
LEMMA Overdraft ==
  ASSUME NEW n \in Nat, NEW m \in Nat, n <= m
  PROVE  /\ MaxStep \in Nat
         /\ 0 - MaxStep * (n + 1) <= 0 - MaxStep
         /\ 0 - MaxStep * (m + 1) <= 0 - MaxStep * (n + 1)
         /\ 0 - MaxStep * (n + 2) = (0 - MaxStep * (n + 1)) - MaxStep
<1>1. MaxStep \in Nat
  BY CollectorAssumption DEF MaxStep
<1> HIDE DEF MaxStep
<1> QED BY <1>1, SMTT(30)

\* Each thread overdraws the budget at most once before it is reset.
LEMMA BudgetStep == CollectorInv /\ BudgetInv /\ [Next]_vars => BudgetInv'
<1> SUFFICES ASSUME CollectorInv, BudgetInv, [Next]_vars PROVE BudgetInv'
  OBVIOUS
<1>0. TypeOK /\ TypeOK'
  BY CollectorInvStep DEF CollectorInv
<1>f. /\ IsFiniteSet(Overdrawn) /\ Cardinality(Overdrawn) \in Nat
      /\ IsFiniteSet(Overdrawn') /\ Cardinality(Overdrawn') \in Nat
  BY FS_Subset, FS_CardinalityType, CollectorAssumption DEF Overdrawn
<1>d. MaxStep \in Nat /\ AccumMax \in Nat /\ AccumMax <= MaxStep
  BY CollectorAssumption DEF MaxStep
<1> DEFINE Held == \A t \in Threads :
                     accum[t] <= IF \/ tpc[t] \in {"subtract", "reset"}
                                    \/ tpc[t] = "request" /\ ~wait[t]
                                   THEN MaxStep ELSE AccumMax
           Floor == bytes >= 0 - MaxStep * (Cardinality(Overdrawn) + 1)
<1>h. Held /\ Floor
  BY DEF BudgetInv
<1>s. SUFFICES Held' /\ Floor'
  BY DEF BudgetInv, MaxStep
<1>k. ASSUME bytes' = bytes, Overdrawn' = Overdrawn PROVE Floor'
  BY <1>k, <1>h DEF MaxStep
<1>r. ASSUME bytes' = ByteInterval PROVE Floor'
  <2>1. ByteInterval \in Nat
    BY CollectorAssumption
  <2>2. 0 - MaxStep * (Cardinality(Overdrawn') + 1) <= 0 - MaxStep
    BY Overdraft, <1>f
  <2> QED BY <1>r, <2>1, <2>2, <1>d, <1>f DEF MaxStep
<1>1. CASE VmStep
  <2>1. CASE StartCollector
    <3>1. Overdrawn = {} /\ Overdrawn' = {} /\ Held'
      BY <2>1, <1>0, <1>h, CollectorAssumption
      DEF StartCollector, CollectorInv, TypeOK, Overdrawn
    <3> QED BY <2>1, <3>1, <1>k DEF StartCollector
  <2>2. CASE StartFails \/ Terminate \/ Terminated \/ Return
    <3>1. UNCHANGED <<accum, tpc, wait, bytes>>
      BY <2>2 DEF StartFails, Terminate, Terminated, Return, collectorVars, threadVars
    <3>2. Overdrawn' = Overdrawn
      BY <3>1 DEF Overdrawn
    <3> QED BY <3>1, <3>2, <1>h, <1>k
  <2> QED BY <1>1, <2>1, <2>2 DEF VmStep
<1>2. CASE CollectorStep
  <2>1. UNCHANGED <<accum, tpc, wait>>
    BY <1>2 DEF CollectorStep, Wake, WakeTerminate, Collect, CollectorExit,
                collectorVars, threadVars
  <2>2. Overdrawn' = Overdrawn
    BY <2>1 DEF Overdrawn
  <2>3. bytes' = bytes \/ bytes' = ByteInterval
    BY <1>2 DEF CollectorStep, Wake, WakeTerminate, Collect, CollectorExit
  <2> QED BY <2>1, <2>2, <2>3, <1>h, <1>k, <1>r
<1>3. ASSUME NEW t \in Threads, ThreadStep(t) PROVE Held' /\ Floor'
  <2> USE DEF Goto, collectorVars
  <2>1. CASE NotifyAlloc(t)
    <3>1. Overdrawn' = Overdrawn
      BY <2>1, <1>0 DEF NotifyAlloc, TypeOK, Overdrawn
    <3>2. Held'
      BY <2>1, <1>0, <1>h, <1>d, CollectorAssumption DEF NotifyAlloc, TypeOK, MaxStep
    <3> QED BY <2>1, <3>1, <3>2, <1>k DEF NotifyAlloc
  <2>2. CASE Subtract(t)
    <3>1. accum[t] \in Nat /\ accum[t] <= MaxStep /\ bytes \in Int
      BY <2>2, <1>0, <1>h DEF Subtract, TypeOK
    <3>2. Held'
      BY <2>2, <1>0, <1>h, <1>d DEF Subtract, TypeOK
    <3>3. CASE bytes < 0
      <4>1. Overdrawn' = Overdrawn \cup {t} /\ t \notin Overdrawn
        BY <2>2, <3>3, <1>0 DEF Subtract, TypeOK, Overdrawn
      <4>2. Cardinality(Overdrawn') = Cardinality(Overdrawn) + 1
        BY <4>1, <1>f, FS_AddElement
      <4>3. bytes' = bytes - accum[t]
        BY <2>2 DEF Subtract
      <4> HIDE DEF MaxStep
      <4>4. Floor'
        BY <4>2, <4>3, <3>1, <1>f, <1>h, <1>d, Overdraft
      <4> QED BY <3>2, <4>4
    <3>4. CASE ~(bytes < 0)
      <4>1. 0 - MaxStep * (Cardinality(Overdrawn') + 1) <= 0 - MaxStep
        BY Overdraft, <1>f
      <4>2. bytes' = bytes - accum[t]
        BY <2>2 DEF Subtract
      <4> QED BY <3>1, <3>2, <3>4, <4>1, <4>2, <1>d, <1>f
    <3> QED BY <3>3, <3>4
  <2>3. CASE ResetBytes(t)
    <3>1. Held'
      BY <2>3, <1>0, <1>h, <1>d DEF ResetBytes, TypeOK
    <3> QED BY <2>3, <3>1, <1>r DEF ResetBytes
  <2>4. CASE CollectNow(t) \/ Request(t)
    <3>1. Overdrawn' = Overdrawn /\ bytes' = bytes
      BY <2>4, <1>0 DEF CollectNow, Request, TypeOK, Overdrawn
    <3>2. Held'
      BY <2>4, <1>0, <1>h, <1>d DEF CollectNow, Request, TypeOK
    <3> QED BY <3>1, <3>2, <1>k
  <2>5. CASE Spin(t) \/ CollectNowReturn(t) \/ End(t) \/ Abort(t)
    <3>1. Overdrawn' = Overdrawn /\ bytes' = bytes
      BY <2>5, <1>0 DEF Spin, CollectNowReturn, End, Abort, TypeOK, Overdrawn
    <3>2. Held'
      BY <2>5, <1>0, <1>h, <1>d DEF Spin, CollectNowReturn, End, Abort, TypeOK
    <3> QED BY <3>1, <3>2, <1>k
  <2> QED BY <1>3, <2>1, <2>2, <2>3, <2>4, <2>5 DEF ThreadStep
<1>4. CASE UNCHANGED vars
  <2>1. UNCHANGED <<accum, tpc, wait, bytes>>
    BY <1>4 DEF vars, collectorVars, threadVars
  <2>2. Overdrawn' = Overdrawn
    BY <2>1 DEF Overdrawn
  <2> QED BY <2>1, <2>2, <1>h, <1>k
<1> QED BY <1>1, <1>2, <1>3, <1>4 DEF Next, Finished

\* m_bytesUntilNextCollection is never overdrawn by more than one subtraction
\* per executor and one, whatever the interleaving.
THEOREM BudgetHolds == Spec => []BudgetBounded
<1>1. Init => BudgetInv
  <2> SUFFICES ASSUME Init PROVE BudgetInv
    OBVIOUS
  <2>1. Overdrawn = {}
    BY DEF Init, Overdrawn
  <2>2. 0 - MaxStep * (Cardinality(Overdrawn) + 1) <= 0 - MaxStep /\ MaxStep \in Nat
    BY <2>1, FS_EmptySet, Overdraft
  <2>3. Cardinality(Overdrawn) = 0
    BY <2>1, FS_EmptySet
  <2> QED BY <2>2, <2>3, CollectorAssumption DEF Init, BudgetInv
<1>2. CollectorInv /\ BudgetInv => BudgetBounded
  <2> SUFFICES ASSUME CollectorInv, BudgetInv PROVE BudgetBounded
    OBVIOUS
  <2>1. /\ Cardinality(Overdrawn) \in Nat /\ Cardinality(Threads) \in Nat
        /\ Cardinality(Overdrawn) <= Cardinality(Threads)
    BY FS_Subset, FS_CardinalityType, CollectorAssumption DEF Overdrawn
  <2>2. /\ MaxStep \in Nat
        /\ 0 - MaxStep * (Cardinality(Threads) + 1) <= 0 - MaxStep * (Cardinality(Overdrawn) + 1)
    BY <2>1, Overdraft
  <2> QED BY <2>1, <2>2 DEF CollectorInv, TypeOK, BudgetInv, BudgetBounded
<1> QED BY <1>1, <1>2, BudgetStep, CollectorInductive, PTL DEF Spec
-----------------------------------------------------------------------------
(* A future. *)

\* The variables of a future stay within their types, except that the counter
\* is shown to be one by CountStep.
LEMMA FutureTypeStep == FutureTypeOK /\ waiters' \in Nat /\ [FutureNext]_futureVars => FutureTypeOK'
<1> SUFFICES ASSUME FutureTypeOK, waiters' \in Nat, [FutureNext]_futureVars PROVE FutureTypeOK'
  OBVIOUS
<1> USE DEF FutureTypeOK, ExecStates, Calling, WaiterTo, Notify, Done
<1>1. CASE ChildStep
  BY <1>1 DEF ChildStep, Compute, SetResult, SetState, AbortChild
<1>2. CASE AbortBegin \/ RunStep
  BY <1>2 DEF AbortBegin, RunStep, AbortEnd, DestroyBegin, DestroyEnd
<1>3. ASSUME NEW w \in Waiters, WaiterStep(w) PROVE FutureTypeOK'
  <2>1. CASE Poll(w) \/ Timeout(w)
    BY <2>1 DEF Poll, Timeout
  <2>2. CASE MarkPaused(w)
    BY <2>2 DEF MarkPaused
  <2>3. CASE Enter(w) \/ Leave(w)
    BY <2>3 DEF Enter, Leave
  <2>4. CASE Test(w)
    BY <2>4 DEF Test
  <2>5. CASE ReadState(w) \/ Again(w)
    BY <2>5 DEF ReadState, Again
  <2>6. CASE Spurious(w) \/ UseAfterFree(w) \/ Resume(w) \/ Drop(w) \/ AbortWaiter(w)
    BY <2>6 DEF Spurious, UseAfterFree, Resume, Drop, AbortWaiter
  <2> QED BY <1>3, <2>1, <2>2, <2>3, <2>4, <2>5, <2>6 DEF WaiterStep, CallStep
<1>4. CASE UNCHANGED futureVars
  BY <1>4 DEF futureVars
<1> QED BY <1>1, <1>2, <1>3, <1>4 DEF FutureNext, FutureFinished

\* m_waitersCount counts the executors inside block() and waitNano().
LEMMA CountStep ==
  FutureTypeOK /\ waiters = Cardinality(Counted) /\ [FutureNext]_futureVars
    => waiters' \in Nat /\ waiters' = Cardinality(Counted')
<1> SUFFICES ASSUME FutureTypeOK, waiters = Cardinality(Counted), [FutureNext]_futureVars
             PROVE  waiters' \in Nat /\ waiters' = Cardinality(Counted')
  OBVIOUS
<1>f. IsFiniteSet(Counted)
  BY FutureAssumption, FS_Subset DEF Counted
<1>s. ASSUME waiters' = waiters, Counted' = Counted
      PROVE  waiters' \in Nat /\ waiters' = Cardinality(Counted')
  BY <1>s DEF FutureTypeOK
<1> USE DEF FutureTypeOK, Counted, Calling, WaiterTo, Notify
<1>1. CASE ChildStep
  <2>1. waiters' = waiters /\ Counted' = Counted
    BY <1>1 DEF ChildStep, Compute, SetResult, SetState, AbortChild
  <2> QED BY <2>1, <1>s
<1>2. CASE AbortBegin \/ RunStep
  <2>1. waiters' = waiters /\ Counted' = Counted
    BY <1>2 DEF AbortBegin, RunStep, AbortEnd, DestroyBegin, DestroyEnd
  <2> QED BY <2>1, <1>s
<1>3. ASSUME NEW w \in Waiters, WaiterStep(w)
      PROVE  waiters' \in Nat /\ waiters' = Cardinality(Counted')
  <2>1. CASE Enter(w)
    <3>1. Counted' = Counted \cup {w} /\ w \notin Counted
      BY <2>1 DEF Enter
    <3>2. Cardinality(Counted') = Cardinality(Counted) + 1
      BY <3>1, <1>f, FS_AddElement
    <3> QED BY <2>1, <3>2 DEF Enter
  <2>2. CASE Leave(w)
    <3>0. wpc[w] = "awake" /\ \E l \in {"returned", "left"} : wpc' = [wpc EXCEPT ![w] = l]
      BY <2>2, Zenon DEF Leave
    <3>1. Counted' = Counted \ {w} /\ w \in Counted
      BY <3>0
    <3> HIDE DEF Counted
    <3>2. Cardinality(Counted') = Cardinality(Counted) - 1 /\ IsFiniteSet(Counted')
      BY <3>1, <1>f, FS_RemoveElement
    <3>3. Cardinality(Counted') \in Nat
      BY <3>2, FS_CardinalityType
    <3> QED BY <2>2, <3>2, <3>3 DEF Leave
  <2>3. CASE ~Enter(w) /\ ~Leave(w)
    <3>1. waiters' = waiters /\ Counted' = Counted
      BY <1>3, <2>3 DEF WaiterStep, CallStep, Poll, MarkPaused, Test, Spurious, Timeout,
                        ReadState, UseAfterFree, Resume, Again, Drop, AbortWaiter, Done
    <3> QED BY <3>1, <1>s
  <2> QED BY <2>1, <2>2, <2>3
<1>4. CASE UNCHANGED futureVars
  BY <1>4, <1>s DEF futureVars
<1> QED BY <1>1, <1>2, <1>3, <1>4 DEF FutureNext, FutureFinished

\* A future that is done does not change its state.
LEMMA FinalStep == FutureInv /\ [FutureNext]_futureVars /\ Done => state' = state
<1> SUFFICES ASSUME FutureInv, [FutureNext]_futureVars, Done PROVE state' = state
  OBVIOUS
<1>1. ~SetState
  BY DEF SetState, FutureInv, PhaseInv, FutureTypeOK, ExecStates, Done
<1>2. DestroyBegin => state' = state
  BY DEF DestroyBegin
<1> QED BY <1>1, <1>2 DEF FutureNext, FutureFinished, ChildStep, Compute, SetResult, AbortChild,
           AbortBegin, RunStep, AbortEnd, DestroyEnd, WaiterStep, CallStep, Enter, Leave,
           Poll, MarkPaused, Test, Spurious, Timeout, ReadState, UseAfterFree, Resume,
           Again, Drop, AbortWaiter, futureVars

\* Forked executor, future, run() and destructor move together.
LEMMA PhaseStep == FutureInv /\ [FutureNext]_futureVars => PhaseInv'
<1> SUFFICES ASSUME FutureInv, [FutureNext]_futureVars PROVE PhaseInv'
  OBVIOUS
<1> USE DEF FutureInv, FutureTypeOK, PhaseInv, ExecStates, Done, Unreachable, WaiterTo, Notify
<1>1. CASE ChildStep
  BY <1>1 DEF ChildStep, Compute, SetResult, SetState, AbortChild
<1>2. CASE AbortBegin \/ AbortEnd
  BY <1>2 DEF AbortBegin, AbortEnd
<1>3. CASE DestroyBegin
  BY <1>3 DEF DestroyBegin
<1>4. CASE DestroyEnd
  BY <1>4 DEF DestroyEnd
<1>5. ASSUME NEW w \in Waiters, WaiterStep(w) PROVE PhaseInv'
  <2>1. UNCHANGED <<state, result, forkpc, final, runpc, dpc>>
    BY <1>5 DEF WaiterStep, CallStep, Enter, Leave, Poll, MarkPaused, Test, Spurious,
                Timeout, ReadState, UseAfterFree, Resume, Again, Drop, AbortWaiter
  <2>2. Unreachable => Unreachable'
    BY <1>5, <2>1
    DEF WaiterStep, CallStep, Enter, Leave, Poll, MarkPaused, Test, Spurious,
        Timeout, ReadState, UseAfterFree, Resume, Again, Drop, AbortWaiter
  <2>3. dpc = "freed" => waiters' = 0
    <3> SUFFICES ASSUME dpc = "freed" PROVE waiters' = 0
      OBVIOUS
    <3>1. Counted = {}
      BY FS_EmptySet, FutureAssumption, FS_Subset DEF Counted
    <3>2. ~Leave(w) /\ ~Enter(w)
      BY <3>1 DEF Leave, Enter, Counted, Calling
    <3> QED BY <1>5, <3>2 DEF WaiterStep, CallStep, Poll, MarkPaused, Test, Spurious,
                Timeout, ReadState, UseAfterFree, Resume, Again, Drop, AbortWaiter
  <2> HIDE DEF Unreachable
  <2> QED BY <2>1, <2>2, <2>3
<1>6. CASE UNCHANGED futureVars
  BY <1>6 DEF futureVars
<1> QED BY <1>1, <1>2, <1>3, <1>4, <1>5, <1>6 DEF FutureNext, RunStep, FutureFinished

\* Every waiter keeps its part of the invariant.
LEMMA WaiterInvStep == FutureInv /\ [FutureNext]_futureVars => \A w \in Waiters : WaiterInv(w)'
<1> SUFFICES ASSUME FutureInv, [FutureNext]_futureVars, NEW w \in Waiters PROVE WaiterInv(w)'
  OBVIOUS
<1> USE DEF FutureInv, FutureTypeOK, WaiterInv, AnswerTrue, ExecStates, Calling, Done, WaiterTo,
            Notify
<1>1. CASE ChildStep
  BY <1>1 DEF PhaseInv, ChildStep, Compute, SetResult, SetState, AbortChild
<1>2. CASE AbortBegin \/ AbortEnd
  BY <1>2 DEF AbortBegin, AbortEnd
<1>3. CASE DestroyBegin
  BY <1>3 DEF DestroyBegin, Unreachable
<1>4. CASE DestroyEnd
  BY <1>4 DEF DestroyEnd
<1>5. ASSUME NEW v \in Waiters, WaiterStep(v) PROVE WaiterInv(w)'
  <2>1. CASE v # w
    BY <1>5, <2>1 DEF WaiterStep, CallStep, Enter, Leave, Poll, MarkPaused, Test, Spurious,
                Timeout, ReadState, UseAfterFree, Resume, Again, Drop, AbortWaiter
  <2>2. CASE v = w
    <3>1. CASE Poll(w) \/ Timeout(w)
      BY <3>1 DEF Poll, Timeout
    <3>2. CASE MarkPaused(w) \/ Enter(w)
      BY <3>2 DEF MarkPaused, Enter
    <3>3. CASE Test(w)
      BY <3>3 DEF Test
    <3>4. CASE Leave(w)
      BY <3>4 DEF Leave
    <3>5. CASE ReadState(w)
      BY <3>5 DEF ReadState
    <3>6. CASE Resume(w)
      BY <3>6 DEF Resume, PhaseInv, Unreachable
    <3>7. CASE Again(w)
      BY <3>7 DEF Again
    <3>8. CASE Spurious(w) \/ UseAfterFree(w) \/ Drop(w) \/ AbortWaiter(w)
      BY <3>8 DEF Spurious, UseAfterFree, Drop, AbortWaiter
    <3> QED BY <1>5, <2>2, <3>1, <3>2, <3>3, <3>4, <3>5, <3>6, <3>7, <3>8
            DEF WaiterStep, CallStep
  <2> QED BY <2>1, <2>2
<1>6. CASE UNCHANGED futureVars
  BY <1>6 DEF futureVars
<1> QED BY <1>1, <1>2, <1>3, <1>4, <1>5, <1>6 DEF FutureNext, RunStep, FutureFinished

\* The invariant of futures holds always.
THEOREM FutureInductive == FutureSpec => []FutureInv
<1>1. FutureInit => FutureInv
  <2> SUFFICES ASSUME FutureInit PROVE FutureInv
    OBVIOUS
  <2>1. Counted = {} /\ Cardinality(Counted) = 0
    BY FS_EmptySet DEF FutureInit, Counted, Calling
  <2>2. FutureTypeOK
    BY DEF FutureInit, FutureTypeOK, ExecStates, Calling
  <2> QED BY <2>1, <2>2 DEF FutureInit, FutureInv, PhaseInv, WaiterInv, Done
<1>2. FutureInv /\ [FutureNext]_futureVars => FutureInv'
  BY FutureTypeStep, CountStep, PhaseStep, WaiterInvStep DEF FutureInv
<1> QED BY <1>1, <1>2, PTL DEF FutureSpec

\* What block() and waitNano() answer is what the forked executor did.
THEOREM AnswerSoundHolds == FutureSpec => []AnswerSound
<1>1. FutureInv => AnswerSound
  BY DEF FutureInv, AnswerSound, PhaseInv, WaiterInv, AnswerTrue, FutureTypeOK, ExecStates, Done
<1> QED BY <1>1, FutureInductive, PTL

\* The destructor never frees the mutex under a waiter.
THEOREM NoWaiterWhenFreedHolds == FutureSpec => []NoWaiterWhenFreed
<1>1. FutureInv => NoWaiterWhenFreed
  BY FS_EmptySet, FutureAssumption, FS_Subset
  DEF FutureInv, PhaseInv, NoWaiterWhenFreed, Counted
<1> QED BY <1>1, FutureInductive, PTL

\* The state in which an executor ended is final.
THEOREM FinalForeverHolds == FutureSpec => FinalForever
<1>1. FutureInv /\ [FutureNext]_futureVars => [Done => state' = state]_futureVars
  BY FinalStep
<1> QED BY <1>1, FutureInductive, PTL DEF FutureSpec, FinalForever
-----------------------------------------------------------------------------
(* A child process. *)

\* The variables of a process stay within their types.
LEMMA ProcessTypeStep == ProcessTypeOK /\ [ProcessNext]_processVars => ProcessTypeOK'
<1> SUFFICES ASSUME ProcessTypeOK, [ProcessNext]_processVars PROVE ProcessTypeOK'
  OBVIOUS
<1> USE DEF ProcessTypeOK, Results, ProcessThreads, ThreadTo
<1>1. CASE Exit \/ Shutdown \/ Close
  BY <1>1 DEF Exit, Shutdown, Close
<1>2. CASE DestroyProcess
  BY <1>2 DEF DestroyProcess, Kill
<1>3. ASSUME NEW t \in ProcessThreads, BlockStep(t) PROVE ProcessTypeOK'
  <2>1. CASE Load(t)
    BY <2>1 DEF Load
  <2>2. CASE LockWait(t) \/ LockStart(t) \/ LockPublish(t)
    BY <2>2 DEF LockWait, LockStart, LockPublish, Lock
  <2>3. CASE TestState(t) \/ Start(t)
    BY <2>3 DEF TestState, Start
  <2>4. CASE WaitPid(t)
    BY <2>4 DEF WaitPid
  <2>5. CASE Publish(t)
    BY <2>5 DEF Publish
  <2>6. CASE BlockReturn(t)
    BY <2>6 DEF BlockReturn
  <2> QED BY <1>3, <2>1, <2>2, <2>3, <2>4, <2>5, <2>6 DEF BlockStep
<1>4. ASSUME NEW t \in ProcessThreads, ProcessThreadStep(t) PROVE ProcessTypeOK'
  BY <1>4 DEF ProcessThreadStep, Block, SpuriousWakeup, SendSignal, Kill, BlockAgain, DropProcess
<1>5. CASE UNCHANGED processVars
  BY <1>5 DEF processVars
<1> QED BY <1>1, <1>2, <1>3, <1>4, <1>5 DEF ProcessNext, Ended

\* The mutex keeps one holder.
LEMMA MutexStep == ProcessInv /\ [ProcessNext]_processVars => MutexInv'
<1> SUFFICES ASSUME ProcessInv, [ProcessNext]_processVars, NEW u \in ProcessThreads
             PROVE  /\ pc'[u] \in {"test", "start", "publish"} => owner' = u
                    /\ depth'[u] => /\ owner' = u /\ pc'[u] \in {"load", "lockWait", "return"}
                                    /\ processState' # "Unknown"
                    /\ owner' = u => pc'[u] \in {"test", "start", "publish"} \/ depth'[u]
  BY DEF MutexInv
<1> USE ProcessAssumption DEF ProcessInv, ProcessTypeOK, MutexInv, ProcessThreads, ThreadTo
<1>1. CASE Exit \/ Shutdown \/ Close
  BY <1>1 DEF Exit, Shutdown, Close
<1>2. CASE DestroyProcess
  BY <1>2 DEF DestroyProcess, Kill, DestructorInv
<1>3. ASSUME NEW t \in ProcessThreads, BlockStep(t)
      PROVE  /\ pc'[u] \in {"test", "start", "publish"} => owner' = u
             /\ depth'[u] => /\ owner' = u /\ pc'[u] \in {"load", "lockWait", "return"}
                             /\ processState' # "Unknown"
             /\ owner' = u => pc'[u] \in {"test", "start", "publish"} \/ depth'[u]
  <2>1. CASE Load(t)
    BY <2>1 DEF Load
  <2>2. CASE LockWait(t) \/ LockStart(t) \/ LockPublish(t)
    BY <2>2 DEF LockWait, LockStart, LockPublish, Lock
  <2>3. CASE TestState(t)
    BY <2>3 DEF TestState
  <2>4. CASE Start(t)
    BY <2>4 DEF Start
  <2>5. CASE WaitPid(t)
    BY <2>5 DEF WaitPid
  <2>6. CASE Publish(t)
    BY <2>6 DEF Publish
  <2>7. CASE BlockReturn(t)
    BY <2>7 DEF BlockReturn
  <2> QED BY <1>3, <2>1, <2>2, <2>3, <2>4, <2>5, <2>6, <2>7 DEF BlockStep
<1>4. ASSUME NEW t \in ProcessThreads, ProcessThreadStep(t)
      PROVE  /\ pc'[u] \in {"test", "start", "publish"} => owner' = u
             /\ depth'[u] => /\ owner' = u /\ pc'[u] \in {"load", "lockWait", "return"}
                             /\ processState' # "Unknown"
             /\ owner' = u => pc'[u] \in {"test", "start", "publish"} \/ depth'[u]
  BY <1>4 DEF ProcessThreadStep, Block, SpuriousWakeup, SendSignal, Kill, BlockAgain, DropProcess
<1>5. CASE UNCHANGED processVars
  BY <1>5 DEF processVars
<1> QED BY <1>1, <1>2, <1>3, <1>4, <1>5 DEF ProcessNext, Ended

\* A process that has ended has one answer, and one thread reaps it.
LEMMA AnswerStep == ProcessInv /\ [ProcessNext]_processVars => AnswerInv'
<1> SUFFICES ASSUME ProcessInv, [ProcessNext]_processVars PROVE AnswerInv'
  OBVIOUS
<1> USE DEF ProcessInv, ProcessTypeOK, AnswerInv, Reaping, Answer, ThreadTo
<1>1. CASE Exit
  BY <1>1 DEF Exit
<1>2. CASE Shutdown \/ Close
  BY <1>2 DEF Shutdown, Close, DestructorInv, ProcessThreads
<1>3. CASE DestroyProcess
  BY <1>3 DEF DestroyProcess, Kill, ProcessThreads
<1>4. ASSUME NEW t \in ProcessThreads, BlockStep(t) PROVE AnswerInv'
  <2>1. CASE Load(t)
    BY <2>1 DEF Load
  <2>2. CASE LockWait(t) \/ LockStart(t) \/ LockPublish(t)
    BY <2>2 DEF LockWait, LockStart, LockPublish, Lock
  <2>3. CASE TestState(t)
    BY <2>3 DEF TestState
  <2>4. CASE Start(t)
    BY <2>4 DEF Start
  <2>5. CASE WaitPid(t)
    BY <2>5 DEF WaitPid
  <2>6. CASE Publish(t)
    BY <2>6 DEF Publish
  <2>7. CASE BlockReturn(t)
    BY <2>7 DEF BlockReturn
  <2> QED BY <1>4, <2>1, <2>2, <2>3, <2>4, <2>5, <2>6, <2>7 DEF BlockStep
<1>5. ASSUME NEW t \in ProcessThreads, ProcessThreadStep(t) PROVE AnswerInv'
  <2>1. CASE Block(t) \/ SpuriousWakeup(t) \/ DropProcess(t)
    BY <2>1 DEF Block, SpuriousWakeup, DropProcess
  <2>2. CASE SendSignal(t)
    BY <2>2 DEF SendSignal, Kill
  <2>3. CASE BlockAgain(t)
    BY <2>3 DEF BlockAgain
  <2> QED BY <1>5, <2>1, <2>2, <2>3 DEF ProcessThreadStep
<1>6. CASE UNCHANGED processVars
  BY <1>6 DEF processVars
<1> QED BY <1>1, <1>2, <1>3, <1>4, <1>5, <1>6 DEF ProcessNext, Ended

\* The destructor frees a process that is not detached after it was reaped.
LEMMA DestructorStep == ProcessInv /\ [ProcessNext]_processVars => DestructorInv'
<1> SUFFICES ASSUME ProcessInv, [ProcessNext]_processVars PROVE DestructorInv'
  OBVIOUS
<1> USE ProcessAssumption
    DEF ProcessInv, ProcessTypeOK, DestructorInv, ProcessThreads, ThreadTo
<1>1. CASE Exit \/ Shutdown \/ Close
  BY <1>1 DEF Exit, Shutdown, Close
<1>2. CASE DestroyProcess
  BY <1>2 DEF DestroyProcess, Kill, AnswerInv
<1>3. ASSUME NEW t \in ProcessThreads, BlockStep(t) PROVE DestructorInv'
  <2>1. CASE Load(t)
    BY <2>1 DEF Load
  <2>2. CASE LockWait(t) \/ LockStart(t) \/ LockPublish(t)
    BY <2>2 DEF LockWait, LockStart, LockPublish, Lock
  <2>3. CASE TestState(t) \/ Start(t)
    BY <2>3 DEF TestState, Start
  <2>4. CASE WaitPid(t) \/ Publish(t)
    BY <2>4 DEF WaitPid, Publish
  <2>5. CASE BlockReturn(t)
    BY <2>5 DEF BlockReturn, AnswerInv
  <2> QED BY <1>3, <2>1, <2>2, <2>3, <2>4, <2>5 DEF BlockStep
<1>4. ASSUME NEW t \in ProcessThreads, ProcessThreadStep(t) PROVE DestructorInv'
  BY <1>4 DEF ProcessThreadStep, Block, SpuriousWakeup, SendSignal, Kill, BlockAgain, DropProcess
<1>5. CASE UNCHANGED processVars
  BY <1>5 DEF processVars
<1> QED BY <1>1, <1>2, <1>3, <1>4, <1>5 DEF ProcessNext, Ended

\* The invariant of processes holds always.
THEOREM ProcessInductive == ProcessSpec => []ProcessInv
<1>1. ProcessInit => ProcessInv
  BY ProcessAssumption
  DEF ProcessInit, ProcessInv, ProcessTypeOK, MutexInv, AnswerInv, DestructorInv, Results,
      Reaping, ProcessThreads
<1>2. ProcessInv /\ [ProcessNext]_processVars => ProcessInv'
  BY ProcessTypeStep, MutexStep, AnswerStep, DestructorStep DEF ProcessInv
<1> QED BY <1>1, <1>2, PTL DEF ProcessSpec

\* Every call of block() returns how the process ended, whoever waited for it
\* and whoever reaped it.
THEOREM ExitCodeAgreesHolds == ProcessSpec => []ExitCodeAgrees
<1>1. ProcessInv => ExitCodeAgrees
  BY DEF ProcessInv, AnswerInv, ExitCodeAgrees, Answer
<1> QED BY <1>1, ProcessInductive, PTL

\* The destructor of a process that is not detached leaves no zombie.
THEOREM NoZombieHolds == ProcessSpec => []NoZombie
<1>1. ProcessInv => NoZombie
  BY DEF ProcessInv, DestructorInv, NoZombie
<1> QED BY <1>1, ProcessInductive, PTL
=============================================================================
